---- MODULE Spec2Model ----
(***************************************************************************)
(* Model of visualize_warehouse.py: the state-transition engine            *)
(* (update_state), the plan parser (parse_plan / parse_action_string) and  *)
(* the main replay loop.                                                   *)
(*                                                                         *)
(* A warehouse state is the dictionary built by parse_init:                *)
(*   robots           id -> [pos, carries]                                 *)
(*   shelves          id -> [pos, quantities]   (pos = NoPos: key popped)  *)
(*   shelf_keys       insertion order of the shelves dictionary            *)
(*   orders           id -> [station_id, requirements]                     *)
(*   highways, nodes  sets of coordinates                                  *)
(*   picking_stations id -> coordinate                                     *)
(*   products         set of product ids                                   *)
(***************************************************************************)
EXTENDS Integers, Sequences, FiniteSets, TLC

VARIABLES
    initial_state,   \* the dictionary returned by parse_init
    current_state,   \* the state threaded through the replay / the argument of a call
    pc,              \* position of the program
    t,               \* loop variable of the visualization loop
    actions_now,     \* action list of the call under study
    prep,            \* action list of the timestep that produced the call's input
    input0,          \* value of the argument when update_state was entered
    result,          \* value returned by the first call
    result2,         \* value returned by the second call on the same argument
    doc,             \* the witness' atom list of the plan document
    plan,            \* parse_plan's timestep -> action list mapping
    max_time,        \* parse_plan's maximum timestep
    applied,         \* timesteps whose action list has been applied, in order
    temp_state,      \* the state of the pre-simulation pass
    plan_file,       \* what reading the plan file gives (see PlanFiles)
    exit_status,     \* the process' exit status, -1 while it runs
    facts            \* the fact lines of the init file

vars == <<initial_state, current_state, pc, t, actions_now, prep, input0,
          result, result2, doc, plan, max_time, applied, temp_state,
          plan_file, exit_status, facts>>

\* the variables of the file readers
files == <<plan_file, exit_status, facts>>

-----------------------------------------------------------------------------
(* Python values *)

None == "None"          \* Python None (robot carries nothing, .get miss)
NoPos == <<>>           \* a shelf dictionary without a 'pos' key

(* Bounds of the model *)
MaxActs == 2            \* longest action list of one timestep
MaxAtoms == 3           \* longest atom list of a plan document
MaxTime == 3            \* largest timestep an atom may name

(* The finite world the inputs are drawn from *)
Cells == {<<1, 1>>, <<2, 1>>, <<2, 2>>}
Deltas == {<<1, 0>>, <<-1, 0>>, <<0, 1>>, <<0, -1>>, <<1, 1>>, <<-1, -1>>}
RobotIds == {"r1", "r2"}
ShelfIds == {"s1", "s2"}
UnitChoices == {2, 3}

-----------------------------------------------------------------------------
(* Action records: {'robot': r, 'action': {'type': ..., ...}} flattened *)

Act(r, type, dx, dy, o, p, u) ==
    [robot |-> r, type |-> type, dx |-> dx, dy |-> dy,
     order |-> o, product |-> p, units |-> u]

MoveAct(r, dx, dy) == Act(r, "move", dx, dy, None, None, 0)
PickupAct(r) == Act(r, "pickup", 0, 0, None, None, 0)
PutdownAct(r) == Act(r, "putdown", 0, 0, None, None, 0)
DeliverAct(r, o, p, u) == Act(r, "deliver", 0, 0, o, p, u)

-----------------------------------------------------------------------------
(* update_state *)


\* Variant: next_state = current_state, no copy: both names are one object.
deepcopy_alias(state) == [cur |-> state, nxt |-> state, shared |-> TRUE]

\* copy.deepcopy(current_state): a fresh object; `shared` records whether
\* next_state and current_state are the same object.
deepcopy(state) == [cur |-> state, nxt |-> state, shared |-> FALSE]

\* Variant: the scan without its `break`, which ends on the last match.
LastShelfAt(state, pos) ==
    LET hits == {i \in 1..Len(state.shelf_keys) :
                    state.shelves[state.shelf_keys[i]].pos = pos}
    IN  IF hits = {} THEN None
        ELSE state.shelf_keys[CHOOSE i \in hits : \A j \in hits : i >= j]


\* for shelf_id, shelf_data in current_state['shelves'].items(): first match
FirstShelfAt(state, pos) ==
    LET hits == {i \in 1..Len(state.shelf_keys) :
                    state.shelves[state.shelf_keys[i]].pos = pos}
    IN  IF hits = {} THEN None
        ELSE state.shelf_keys[CHOOSE i \in hits : \A j \in hits : i <= j]


\* Variant: a move that takes the coordinate it leaves out of the node set.
DoMove_consumes_node(cur, nxt, a) ==
    LET current_pos == cur.robots[a.robot].pos
    IN  [nxt EXCEPT !.robots[a.robot].pos =
                        <<current_pos[1] + a.dx, current_pos[2] + a.dy>>,
                    !.nodes = @ \ {current_pos}]

\* Variant: a move that starts from the position next_state holds.
DoMove_accumulates(cur, nxt, a) ==
    LET current_pos == nxt.robots[a.robot].pos
    IN  [nxt EXCEPT !.robots[a.robot].pos =
                        <<current_pos[1] + a.dx, current_pos[2] + a.dy>>]

\* Variant: a move that drops the dy displacement.
DoMove_dx_only(cur, nxt, a) ==
    [nxt EXCEPT !.robots[a.robot].pos =
                    <<cur.robots[a.robot].pos[1] + a.dx, cur.robots[a.robot].pos[2]>>]

DoMove(cur, nxt, a) ==
    LET current_pos == cur.robots[a.robot].pos
    IN  [nxt EXCEPT !.robots[a.robot].pos =
                        <<current_pos[1] + a.dx, current_pos[2] + a.dy>>]

DoPickup(cur, nxt, a) ==
    LET current_pos == cur.robots[a.robot].pos
        current_carrying == cur.robots[a.robot].carries
        shelf_to_pickup == FirstShelfAt(cur, current_pos)
    IN  IF current_carrying # None THEN nxt
        ELSE IF shelf_to_pickup # None
             THEN [nxt EXCEPT !.robots[a.robot].carries = shelf_to_pickup,
                              !.shelves[shelf_to_pickup].pos = NoPos]
             ELSE nxt


\* Variant: the putdown branch without its scan for another shelf.
Occupied_never(nxt, current_pos, current_carrying) == FALSE

\* the `occupied` scan over next_state['shelves']
Occupied(nxt, current_pos, current_carrying) ==
    \E shelf_id \in DOMAIN nxt.shelves :
        nxt.shelves[shelf_id].pos = current_pos /\ shelf_id # current_carrying


\* Variant: the putdown branch without its highway check.
PutdownOnHighway_never(cur, nxt, a) == FALSE

PutdownOnHighway(cur, nxt, a) ==
    cur.robots[a.robot].pos \in nxt.highways


\* Variant: a putdown whose scan for another shelf reads the timestep-start
\* state instead of next_state.
DoPutdown_scans_start(cur, nxt, a) ==
    LET current_pos == cur.robots[a.robot].pos
        current_carrying == cur.robots[a.robot].carries
    IN  IF current_carrying = None THEN nxt
        ELSE IF current_pos \in nxt.highways THEN nxt
        ELSE IF \E shelf_id \in DOMAIN cur.shelves :
                    cur.shelves[shelf_id].pos = current_pos
                        /\ shelf_id # current_carrying
             THEN nxt
        ELSE [nxt EXCEPT !.robots[a.robot].carries = None,
                         !.shelves[current_carrying].pos = current_pos]

\* Variant: a putdown that places the shelf but forgets to clear `carries`.
DoPutdown_keeps_carrying(cur, nxt, a) ==
    LET current_pos == cur.robots[a.robot].pos
        current_carrying == cur.robots[a.robot].carries
    IN  IF current_carrying = None THEN nxt
        ELSE IF PutdownOnHighway(cur, nxt, a) THEN nxt
        ELSE IF Occupied(nxt, current_pos, current_carrying) THEN nxt
        ELSE [nxt EXCEPT !.shelves[current_carrying].pos = current_pos]

DoPutdown(cur, nxt, a) ==
    LET current_pos == cur.robots[a.robot].pos
        current_carrying == cur.robots[a.robot].carries
    IN  IF current_carrying = None THEN nxt
        ELSE IF PutdownOnHighway(cur, nxt, a) THEN nxt
        ELSE IF Occupied(nxt, current_pos, current_carrying) THEN nxt
        ELSE IF current_carrying \in DOMAIN nxt.shelves
             THEN [nxt EXCEPT !.robots[a.robot].carries = None,
                              !.shelves[current_carrying].pos = current_pos]
             ELSE [nxt EXCEPT !.robots[a.robot].carries = None]

\* next_state['picking_stations'].get(required_station_id)
RequiredStationPos(nxt, order_id) ==
    LET required_station_id == nxt.orders[order_id].station_id
    IN  IF required_station_id \in DOMAIN nxt.picking_stations
        THEN nxt.picking_stations[required_station_id]
        ELSE NoPos


\* Variant: the deliver checks without the comparison of the robot's position
\* with the station's.
DeliverRejected_anywhere(cur, nxt, a) ==
    LET shelf_id_carried == cur.robots[a.robot].carries
    IN  \/ shelf_id_carried = None
        \/ shelf_id_carried \notin DOMAIN nxt.shelves
        \/ a.order \notin DOMAIN nxt.orders
        \/ a.product \notin DOMAIN nxt.shelves[shelf_id_carried].quantities
        \/ nxt.shelves[shelf_id_carried].quantities[a.product] < a.units

\* Variant: the deliver checks with the stock read from the timestep-start
\* state.
DeliverRejected_start_stock(cur, nxt, a) ==
    LET shelf_id_carried == cur.robots[a.robot].carries
    IN  \/ shelf_id_carried = None
        \/ shelf_id_carried \notin DOMAIN nxt.shelves
        \/ a.order \notin DOMAIN nxt.orders
        \/ a.product \notin DOMAIN nxt.shelves[shelf_id_carried].quantities
        \/ cur.robots[a.robot].pos # RequiredStationPos(nxt, a.order)
        \/ cur.shelves[shelf_id_carried].quantities[a.product] < a.units

\* Variant: the deliver checks without the comparison of the shelf's stock
\* with the units.
DeliverRejected_no_stock_check(cur, nxt, a) ==
    LET shelf_id_carried == cur.robots[a.robot].carries
    IN  \/ shelf_id_carried = None
        \/ shelf_id_carried \notin DOMAIN nxt.shelves
        \/ a.order \notin DOMAIN nxt.orders
        \/ a.product \notin DOMAIN nxt.shelves[shelf_id_carried].quantities
        \/ cur.robots[a.robot].pos # RequiredStationPos(nxt, a.order)

\* the chain of `continue` checks of the deliver branch
DeliverRejected(cur, nxt, a) ==
    LET shelf_id_carried == cur.robots[a.robot].carries
    IN  \/ shelf_id_carried = None
        \/ shelf_id_carried \notin DOMAIN nxt.shelves
        \/ a.order \notin DOMAIN nxt.orders
        \/ a.product \notin DOMAIN nxt.shelves[shelf_id_carried].quantities
        \/ cur.robots[a.robot].pos # RequiredStationPos(nxt, a.order)
        \/ nxt.shelves[shelf_id_carried].quantities[a.product] < a.units


\* Variant: the decrement without the reset of a negative requirement to 0.
DecrementRequirement_no_floor(req, units) == req - units

\* requirements[product_id] -= units, then floored at 0
DecrementRequirement(req, units) ==
    IF req - units < 0 THEN 0 ELSE req - units

\* Variant: a delivery that lowers the requirement and leaves the shelf's
\* quantity as it was.
DoDeliver_keeps_stock(cur, nxt, a) ==
    IF DeliverRejected(cur, nxt, a) THEN nxt
    ELSE IF a.product \in DOMAIN nxt.orders[a.order].requirements
         THEN [nxt EXCEPT !.orders[a.order].requirements[a.product] =
                            DecrementRequirement(@, a.units)]
         ELSE nxt

DoDeliver(cur, nxt, a) ==
    LET shelf_id_carried == cur.robots[a.robot].carries
    IN  IF DeliverRejected(cur, nxt, a) THEN nxt
        ELSE LET taken == [nxt EXCEPT
                    !.shelves[shelf_id_carried].quantities[a.product] = @ - a.units]
             IN  IF a.product \in DOMAIN taken.orders[a.order].requirements
                 THEN [taken EXCEPT
                        !.orders[a.order].requirements[a.product] =
                            DecrementRequirement(@, a.units)]
                 ELSE taken

\* one iteration of `for action_info in actions_at_this_step`
ApplyAction(cur, nxt, a) ==
    IF a.robot \notin DOMAIN cur.robots THEN nxt
    ELSE CASE a.type = "move" -> DoMove(cur, nxt, a)
           [] a.type = "pickup" -> DoPickup(cur, nxt, a)
           [] a.type = "putdown" -> DoPutdown(cur, nxt, a)
           [] a.type = "deliver" -> DoDeliver(cur, nxt, a)
           [] OTHER -> nxt

\* the paths of one iteration that print a warning and write nothing
Rejected(cur, nxt, a) ==
    IF a.robot \notin DOMAIN cur.robots THEN TRUE
    ELSE CASE a.type = "pickup" ->
                \/ cur.robots[a.robot].carries # None
                \/ FirstShelfAt(cur, cur.robots[a.robot].pos) = None
           [] a.type = "putdown" ->
                \/ cur.robots[a.robot].carries = None
                \/ PutdownOnHighway(cur, nxt, a)
                \/ Occupied(nxt, cur.robots[a.robot].pos, cur.robots[a.robot].carries)
           [] a.type = "deliver" -> DeliverRejected(cur, nxt, a)
           [] OTHER -> FALSE

\* the iteration on the two objects: a write to next_state is a write to
\* current_state exactly when they are the same object
LoopBody(mem, a) ==
    LET written == ApplyAction(mem.cur, mem.nxt, a)
    IN  [cur |-> IF mem.shared THEN written ELSE mem.cur,
         nxt |-> written,
         shared |-> mem.shared]


\* Variant: an action of an unknown robot ends the loop (break for continue).
RECURSIVE ForLoop_break(_, _)
ForLoop_break(mem, actions) ==
    IF actions = <<>> THEN mem
    ELSE IF Head(actions).robot \notin DOMAIN mem.cur.robots THEN mem
    ELSE ForLoop_break(LoopBody(mem, Head(actions)), Tail(actions))

RECURSIVE ForLoop(_, _)
ForLoop(mem, actions) ==
    IF actions = <<>> THEN mem
    ELSE ForLoop(LoopBody(mem, Head(actions)), Tail(actions))

\* update_state seen with its argument: .cur is the argument object after the
\* call, .nxt the returned object
update_state_call(state, actions) == ForLoop(deepcopy(state), actions)

update_state(state, actions) == update_state_call(state, actions).nxt

-----------------------------------------------------------------------------
(* Initial states: what parse_init builds from the fact lines.  Every robot
   carries None, every shelf has a position, quantities and requirements are the
   non-negative integers of the facts, and both mappings are normalised over the
   product universe. *)

MkInit(r1pos, r2pos, s1pos, s2pos) ==
    [nodes |-> Cells,
     highways |-> {<<2, 1>>},
     picking_stations |-> [st \in {"st1"} |-> <<2, 2>>],
     robots |-> [r \in RobotIds |->
                    [pos |-> IF r = "r1" THEN r1pos ELSE r2pos, carries |-> None]],
     shelf_keys |-> <<"s1", "s2">>,
     shelves |-> [s \in ShelfIds |->
                    [pos |-> IF s = "s1" THEN s1pos ELSE s2pos,
                     quantities |-> [p \in {"p1"} |-> IF s = "s1" THEN 5 ELSE 3]]],
     products |-> {"p1"},
     orders |-> [o \in {"o1"} |->
                    [station_id |-> "st1", requirements |-> [p \in {"p1"} |-> 3]]]]

\* Fact files in which no two shelves are declared on the same coordinate.
InitStates ==
    {MkInit(a, b, c, d) : <<a, b, c, d>> \in
        {q \in Cells \X Cells \X Cells \X Cells : q[3] # q[4]}}

-----------------------------------------------------------------------------
(* Inputs: the action lists a plan can hold for one timestep.  Move
   displacements are kept to those that land inside Cells. *)

MoveActs(state, r) ==
    {MoveAct(r, d[1], d[2]) : d \in
        {e \in Deltas : <<state.robots[r].pos[1] + e[1],
                          state.robots[r].pos[2] + e[2]>> \in Cells}}

RobotActs(state, r) ==
    MoveActs(state, r) \cup {PickupAct(r), PutdownAct(r)}
        \cup {DeliverAct(r, "o1", "p1", u) : u \in UnitChoices}

EngineActs(state) == UNION {RobotActs(state, r) : r \in RobotIds}

ListsOver(alphabet, n) == UNION {[1..k -> alphabet] : k \in 0..n}

-----------------------------------------------------------------------------
(* parse_plan and parse_action_string.  An atom of the plan document is
   [pred, robot, action, time]; its action part is the string, kept as its
   name and argument list: pickup = [name |-> "pickup", args |-> <<>>],
   move(1,1) = [name |-> "move", args |-> <<1, 1>>]. *)

Str(name, args) == [name |-> name, args |-> args]

Atom(robot, action, time) ==
    [pred |-> "occurs", robot |-> robot, action |-> action, time |-> time]

\* Variant: an action string of no known shape is returned under its own
\* name as type.
parse_action_string_keeps_raw(action_str) ==
    IF action_str.name = "move" /\ Len(action_str.args) = 2
    THEN MoveAct(None, action_str.args[1], action_str.args[2])
    ELSE IF action_str.name = "pickup" /\ action_str.args = <<>>
    THEN PickupAct(None)
    ELSE IF action_str.name = "putdown" /\ action_str.args = <<>>
    THEN PutdownAct(None)
    ELSE IF action_str.name = "deliver" /\ Len(action_str.args) = 3
    THEN DeliverAct(None, action_str.args[1], action_str.args[2], action_str.args[3])
    ELSE Act(None, action_str.name, 0, 0, None, None, 0)

parse_action_string(action_str) ==
    IF action_str.name = "move" /\ Len(action_str.args) = 2
    THEN MoveAct(None, action_str.args[1], action_str.args[2])
    ELSE IF action_str.name = "pickup" /\ action_str.args = <<>>
    THEN PickupAct(None)
    ELSE IF action_str.name = "putdown" /\ action_str.args = <<>>
    THEN PutdownAct(None)
    ELSE IF action_str.name = "deliver" /\ Len(action_str.args) = 3
    THEN DeliverAct(None, action_str.args[1], action_str.args[2], action_str.args[3])
    ELSE Act(None, "unknown", 0, 0, None, None, 0)


\* Variant: max_time = time, the timestep of the atom read last.
Max_last(a, b) == b

Max(a, b) == IF a >= b THEN a ELSE b

\* plan = defaultdict(list): a timestep without an entry holds no list, which
\* plan.get(t, []) reads as the empty list
EmptyPlan == [time \in 0..MaxTime |-> <<>>]

RECURSIVE ParseAtoms(_, _, _)
ParseAtoms(plan_atoms, plan_so_far, max_so_far) ==
    IF plan_atoms = <<>> THEN [plan |-> plan_so_far, max_time |-> max_so_far]
    ELSE LET atom == Head(plan_atoms)
             action_details == parse_action_string(atom.action)
         IN  IF atom.pred # "occurs"
             THEN ParseAtoms(Tail(plan_atoms), plan_so_far, max_so_far)
             ELSE ParseAtoms(
                    Tail(plan_atoms),
                    IF action_details.type # "unknown"
                    THEN [plan_so_far EXCEPT ![atom.time] =
                            Append(@, [action_details EXCEPT !.robot = atom.robot])]
                    ELSE plan_so_far,
                    Max(max_so_far, atom.time))

parse_plan(plan_atoms) == ParseAtoms(plan_atoms, EmptyPlan, 0)

\* plan.get(t, [])
PlanGet(p, time) == p[time]

\* the timesteps that have an entry in the plan
PlanKeys(p) == {time \in DOMAIN p : p[time] # <<>>}

\* What open() and json.loads give for the plan file: no file, text that is
\* not JSON, JSON that is not an object (.get raises), an object without a
\* 'Call' entry, a first call without 'Witnesses', or a document whose first
\* witness holds the atom list.
PlanFiles == {"absent", "not_json", "not_object", "no_call", "no_witnesses", "ok"}

\* Variant: the except clauses return the empty plan instead of None.
parse_plan_file_lenient(file, plan_atoms) ==
    IF file = "ok"
    THEN [plan |-> parse_plan(plan_atoms).plan,
          max_time |-> parse_plan(plan_atoms).max_time, is_none |-> FALSE]
    ELSE [plan |-> EmptyPlan, max_time |-> 0, is_none |-> FALSE]

\* parse_plan(filepath) with its file handling: the except clauses return
\* (None, 0), the 'Call'/'Witnesses' test returns the empty plan and 0
parse_plan_file(file, plan_atoms) ==
    IF file \in {"absent", "not_json", "not_object"}
    THEN [plan |-> None, max_time |-> 0, is_none |-> TRUE]
    ELSE IF file \in {"no_call", "no_witnesses"}
    THEN [plan |-> EmptyPlan, max_time |-> 0, is_none |-> FALSE]
    ELSE [plan |-> parse_plan(plan_atoms).plan,
          max_time |-> parse_plan(plan_atoms).max_time, is_none |-> FALSE]

\* `plan is None`
PlanIsNone(parsed) == parsed.is_none

-----------------------------------------------------------------------------
(* Spec: the replay of an arbitrary plan.  Each step is one pass of the
   visualization loop, `current_state = update_state(current_state,
   actions_now)`, for an arbitrary action list. *)

Idle ==
    /\ actions_now = <<>> /\ prep = <<>> /\ input0 = None /\ result = None
    /\ result2 = None /\ doc = <<>> /\ plan = EmptyPlan /\ max_time = 0
    /\ applied = <<>> /\ t = 0 /\ temp_state = None
    /\ plan_file = "ok" /\ exit_status = -1 /\ facts = <<>>

Init ==
    /\ initial_state = None
    /\ current_state \in InitStates
    /\ pc = "loop"
    /\ Idle

Timestep ==
    /\ pc = "loop"
    /\ \E actions \in ListsOver(EngineActs(current_state), MaxActs) :
          current_state' = update_state(current_state, actions)
    /\ UNCHANGED files
    /\ UNCHANGED <<initial_state, pc, t, actions_now, prep, input0, result,
                   result2, doc, plan, max_time, applied, temp_state>>

Next == Timestep

Spec == Init /\ [][Next]_vars

-----------------------------------------------------------------------------
(* parse_init.  A fact line is kept as what its regular expression captures:
   [kind, id, pos, ref, qty], kind "other" for a line no expression matches.
     node / highway / pickingStation / robot / shelf : id at pos
     product      : product id on shelf ref, quantity qty
     orderStation : order id at picking station ref
     orderLine    : order id asks qty of product ref *)

MaxFacts == 4           \* longest fact file

Fact(kind, id, pos, ref, qty) ==
    [kind |-> kind, id |-> id, pos |-> pos, ref |-> ref, qty |-> qty]

\* dictionaries: functions over the keys inserted so far
EmptyDict == [k \in {} |-> 0]
Put(dict, key, value) ==
    [k \in DOMAIN dict \cup {key} |-> IF k = key THEN value ELSE dict[k]]
Get(dict, key, default) == IF key \in DOMAIN dict THEN dict[key] ELSE default

\* the state dictionary and the temporaries before the first line
ParseStart ==
    [state |-> [nodes |-> {}, highways |-> {}, picking_stations |-> EmptyDict,
                robots |-> EmptyDict, shelf_keys |-> <<>>, shelves |-> EmptyDict,
                products |-> {}, orders |-> EmptyDict],
     max_x |-> 0, max_y |-> 0,
     shelf_quantities_temp |-> EmptyDict,
     order_reqs_temp |-> EmptyDict,
     order_station_temp |-> EmptyDict]

\* Variant: an order line that does not add its product to state['products'].
AddLineProduct_forgotten(products, product_id) == products

\* state['products'].add(product_id) of the order-line branch
AddLineProduct(products, product_id) == products \cup {product_id}

\* the if/elif chain on one line
ParseLine(acc, line) ==
    CASE line.kind = "node" ->
            [acc EXCEPT !.state.nodes = @ \cup {line.pos},
                        !.max_x = Max(@, line.pos[1]),
                        !.max_y = Max(@, line.pos[2])]
      [] line.kind = "highway" ->
            [acc EXCEPT !.state.highways = @ \cup {line.pos}]
      [] line.kind = "pickingStation" ->
            [acc EXCEPT !.state.picking_stations = Put(@, line.id, line.pos)]
      [] line.kind = "robot" ->
            [acc EXCEPT !.state.robots =
                Put(@, line.id, [pos |-> line.pos, carries |-> None])]
      [] line.kind = "shelf" ->
            IF line.id \notin DOMAIN acc.state.shelves
            THEN [acc EXCEPT
                    !.state.shelves =
                        Put(@, line.id, [pos |-> line.pos, quantities |-> EmptyDict]),
                    !.state.shelf_keys = Append(@, line.id)]
            ELSE [acc EXCEPT !.state.shelves[line.id].pos = line.pos]
      [] line.kind = "product" ->
            [acc EXCEPT
                !.state.products = @ \cup {line.id},
                !.shelf_quantities_temp =
                    Put(@, line.ref, Put(Get(@, line.ref, EmptyDict), line.id, line.qty))]
      [] line.kind = "orderStation" ->
            [acc EXCEPT !.order_station_temp = Put(@, line.id, line.ref)]
      [] line.kind = "orderLine" ->
            [acc EXCEPT
                !.state.products = AddLineProduct(@, line.ref),
                !.order_reqs_temp =
                    Put(@, line.id, Put(Get(@, line.id, EmptyDict), line.ref, line.qty))]
      [] OTHER -> acc

RECURSIVE ParseLines(_, _)
ParseLines(acc, lines) ==
    IF lines = <<>> THEN acc
    ELSE ParseLines(ParseLine(acc, Head(lines)), Tail(lines))

\* .setdefault(product_id, 0) for every product of state['products']
SetDefaults(mapping, products) ==
    [p \in DOMAIN mapping \cup products |->
        IF p \in DOMAIN mapping THEN mapping[p] ELSE 0]

\* the linking of the temporaries and the defaults, after the last line
LinkAndDefault(acc) ==
    LET linked_shelves ==
            [sh \in DOMAIN acc.state.shelves |->
                IF sh \in DOMAIN acc.shelf_quantities_temp
                THEN [acc.state.shelves[sh] EXCEPT
                        !.quantities = acc.shelf_quantities_temp[sh]]
                ELSE acc.state.shelves[sh]]
        order_ids == DOMAIN acc.order_reqs_temp \cap DOMAIN acc.order_station_temp
    IN  [acc.state EXCEPT
            !.shelves =
                [sh \in DOMAIN linked_shelves |->
                    [linked_shelves[sh] EXCEPT
                        !.quantities = SetDefaults(@, acc.state.products)]],
            !.orders =
                [o \in order_ids |->
                    [station_id |-> acc.order_station_temp[o],
                     requirements |->
                        SetDefaults(acc.order_reqs_temp[o], acc.state.products)]]]

\* parse_init(filepath) on a readable file: (state, grid_dims)
parse_init(lines) ==
    LET acc == ParseLines(ParseStart, lines)
    IN  [state |-> LinkAndDefault(acc),
         grid_dims |-> [x |-> acc.max_x, y |-> acc.max_y]]

-----------------------------------------------------------------------------
(* SpecInit: parse_init on an arbitrary fact file. *)

FactLines ==
    {Fact("shelf", "s1", <<1, 1>>, None, 0),
     Fact("shelf", "s2", <<2, 2>>, None, 0),
     Fact("robot", "r1", <<1, 1>>, None, 0),
     Fact("product", "p1", NoPos, "s1", 5),
     Fact("product", "p2", NoPos, "s9", 1),
     Fact("orderStation", "o1", NoPos, "st1", 0),
     Fact("orderLine", "o1", NoPos, "p1", 3),
     Fact("orderLine", "o2", NoPos, "p3", 1),
     Fact("other", None, NoPos, None, 0)}

InitFacts ==
    /\ facts \in ListsOver(FactLines, MaxFacts)
    /\ initial_state = None
    /\ current_state = None
    /\ pc = "read"
    /\ actions_now = <<>> /\ prep = <<>> /\ input0 = None /\ result = None
    /\ result2 = None /\ doc = <<>> /\ plan = EmptyPlan /\ max_time = 0
    /\ applied = <<>> /\ t = 0 /\ temp_state = None
    /\ plan_file = "ok" /\ exit_status = -1

\* initial_state, grid_dims = parse_init(args.init_file)
ParseInit ==
    /\ pc = "read"
    /\ initial_state' = parse_init(facts).state
    /\ pc' = "parsed"
    /\ UNCHANGED files
    /\ UNCHANGED <<current_state, t, actions_now, prep, input0, result, result2,
                   doc, plan, max_time, applied, temp_state>>

NextInit == ParseInit

SpecInit == InitFacts /\ [][NextInit]_vars

-----------------------------------------------------------------------------
(* SpecCall: one call of update_state under study.  The argument is a state
   the replay reaches (a parse_init result, or that result after one timestep),
   the action list is arbitrary, and the call is made twice on the same
   argument object. *)

\* Fact files with shelf s1 declared on robot r1's coordinate; shelf s2 and
\* robot r2 stand on the highway or on the station coordinate.
\* and with an order o2 bound to a station id that no pickingStation fact
\* gives a coordinate.
UnboundOrder(state) ==
    [state EXCEPT !.orders =
        Put(@, "o2", [station_id |-> "st9", requirements |-> [p \in {"p1"} |-> 1]])]

CallInitStates ==
    {UnboundOrder(MkInit(a, b, a, d)) : <<a, b, d>> \in
        {<<1, 1>>, <<2, 2>>} \X {<<2, 1>>, <<2, 2>>} \X {<<2, 1>>, <<2, 2>>}}

PrepLists(state) ==
    ListsOver(EngineActs(state), 1) \cup {<<PickupAct("r1"), PickupAct("r2")>>}

\* actions naming a robot, an order or a product the state does not know
\* or an order without a station coordinate, and a move off the nodes
StrangerActs ==
    {PickupAct("r9"), MoveAct("r9", 1, 0),
     DeliverAct("r1", "o9", "p1", 3), DeliverAct("r1", "o1", "p9", 3),
     DeliverAct("r1", "o2", "p1", 2), MoveAct("r1", -1, 0)}

CallActs(state) == EngineActs(state) \cup StrangerActs

InitCall ==
    /\ initial_state \in CallInitStates
    /\ current_state = initial_state
    /\ pc = "prep"
    /\ Idle

\* the timestep before the call, and the choice of the call's action list
Prepare ==
    /\ pc = "prep"
    /\ \E p \in PrepLists(current_state) :
          /\ prep' = p
          /\ current_state' = update_state(current_state, p)
    /\ \E actions \in ListsOver(CallActs(current_state'), MaxActs) :
          actions_now' = actions
    /\ pc' = "ready"
    /\ UNCHANGED files
    /\ UNCHANGED <<initial_state, t, input0, result, result2, doc, plan,
                   max_time, applied, temp_state>>

FirstCall ==
    /\ pc = "ready"
    /\ LET mem == update_state_call(current_state, actions_now)
       IN  /\ input0' = current_state
           /\ current_state' = mem.cur
           /\ result' = mem.nxt
    /\ pc' = "called"
    /\ UNCHANGED files
    /\ UNCHANGED <<initial_state, t, actions_now, prep, result2, doc, plan,
                   max_time, applied, temp_state>>

SecondCall ==
    /\ pc = "called"
    /\ LET mem == update_state_call(current_state, actions_now)
       IN  /\ current_state' = mem.cur
           /\ result2' = mem.nxt
    /\ pc' = "returned"
    /\ UNCHANGED files
    /\ UNCHANGED <<initial_state, t, actions_now, prep, input0, result, doc,
                   plan, max_time, applied, temp_state>>

NextCall == Prepare \/ FirstCall \/ SecondCall

SpecCall == InitCall /\ [][NextCall]_vars

-----------------------------------------------------------------------------
(* SpecRun: __main__ on a parsed plan document. *)

RunInitStates == {MkInit(<<1, 1>>, <<2, 1>>, <<1, 1>>, <<2, 2>>)}

ActionStrings ==
    {Str("pickup", <<>>), Str("move", <<1, 1>>),
     Str("deliver", <<"o1", "p1", 3>>), Str("wait", <<>>)}

Atoms == {Atom("r1", action, time) : action \in ActionStrings, time \in 0..MaxTime}

InitRun ==
    /\ initial_state \in RunInitStates
    /\ current_state = None
    /\ plan_file \in PlanFiles
    /\ doc \in (IF plan_file = "ok" THEN ListsOver(Atoms, MaxAtoms) ELSE {<<>>})
    /\ pc = "parse"
    /\ actions_now = <<>> /\ prep = <<>> /\ input0 = None /\ result = None
    /\ result2 = None /\ plan = EmptyPlan /\ max_time = 0
    /\ applied = <<>> /\ t = 0 /\ temp_state = None
    /\ exit_status = -1 /\ facts = <<>>

\* plan, max_time = parse_plan(args.plan_file)
ParsePlan ==
    /\ pc = "parse"
    /\ LET parsed == parse_plan_file(plan_file, doc)
       IN  /\ plan' = parsed.plan
           /\ max_time' = parsed.max_time
           /\ IF PlanIsNone(parsed)
              THEN pc' = "exit" /\ exit_status' = 1
              ELSE pc' = "presim" /\ UNCHANGED exit_status
    /\ UNCHANGED <<plan_file, facts>>
    /\ UNCHANGED <<initial_state, current_state, t, actions_now, prep, input0,
                   result, result2, doc, applied, temp_state>>

RECURSIVE Replay(_, _, _, _)
Replay(state, p, from, to) ==
    IF from > to THEN state
    ELSE Replay(update_state(state, PlanGet(p, from)), p, from + 1, to)

\* the loop of the pre-simulation pass on the objects it holds: .init is the
\* initial_state object, .temp the object temp_state names, .linked whether
\* they are one object
RECURSIVE PassLoop(_, _, _, _)
PassLoop(objs, p, from, to) ==
    IF from > to THEN objs
    ELSE LET mem == update_state_call(objs.temp, PlanGet(p, from))
         IN  PassLoop([init |-> IF objs.linked THEN mem.cur ELSE objs.init,
                       temp |-> mem.nxt,
                       linked |-> objs.linked /\ mem.shared],
                      p, from + 1, to)

\* Variant: a pass that advances initial_state itself (no copy, timesteps
\* applied in place).
PreSimulationPass_in_place(state, p, to) ==
    [init |-> Replay(state, p, 1, to),
     temp |-> Replay(state, p, 1, to),
     linked |-> TRUE]

\* temp_state = copy.deepcopy(initial_state), then the loop
PreSimulationPass(state, p, to) ==
    LET copied == deepcopy(state)
    IN  PassLoop([init |-> copied.cur, temp |-> copied.nxt,
                  linked |-> copied.shared], p, 1, to)

\* the pre-simulation pass
PreSimulation ==
    /\ pc = "presim"
    /\ temp_state' = PreSimulationPass(initial_state, plan, max_time).temp
    /\ initial_state' = PreSimulationPass(initial_state, plan, max_time).init
    /\ pc' = "frame0"
    /\ UNCHANGED files
    /\ UNCHANGED <<current_state, t, actions_now, prep, input0, result,
                   result2, doc, plan, max_time, applied>>

\* current_state = initial_state; visualize_step(current_state, 0, ...)
Frame0 ==
    /\ pc = "frame0"
    /\ current_state' = initial_state
    /\ t' = 1
    /\ pc' = "loop"
    /\ UNCHANGED files
    /\ UNCHANGED <<initial_state, actions_now, prep, input0, result, result2,
                   doc, plan, max_time, applied, temp_state>>

\* one pass of `for t in range(1, max_time + 1)`
VisualizationStep ==
    /\ pc = "loop"
    /\ t <= max_time
    /\ actions_now' = PlanGet(plan, t)
    /\ current_state' = update_state(current_state, PlanGet(plan, t))
    /\ applied' = Append(applied, t)
    /\ t' = t + 1
    /\ UNCHANGED files
    /\ UNCHANGED <<initial_state, pc, prep, input0, result, result2, doc, plan,
                   max_time, temp_state>>

SimulationComplete ==
    /\ pc = "loop"
    /\ t > max_time
    /\ pc' = "done"
    /\ exit_status' = 0
    /\ UNCHANGED <<plan_file, facts>>
    /\ UNCHANGED <<initial_state, current_state, t, actions_now, prep, input0,
                   result, result2, doc, plan, max_time, applied, temp_state>>

NextRun == ParsePlan \/ PreSimulation \/ Frame0 \/ VisualizationStep
              \/ SimulationComplete

SpecRun == InitRun /\ [][NextRun]_vars

-----------------------------------------------------------------------------
(* Properties *)

Front(seq) == SubSeq(seq, 1, Len(seq) - 1)
Last(seq) == seq[Len(seq)]
RemoveAt(seq, i) == SubSeq(seq, 1, i - 1) \o SubSeq(seq, i + 1, Len(seq))
Range(seq) == {seq[i] : i \in 1..Len(seq)}

\* next_state as the last action of the call's list found it
BeforeLast == update_state(input0, Front(actions_now))

\* C1: update_state never modifies its argument (after each call the
\* argument object still holds the value it had on entry), and a second call
\* with the same state and action list returns an equal result.
C1_UpdateStateLeavesInput ==
    /\ pc \in {"called", "returned"} => current_state = input0
    /\ pc = "returned" => result2 = result

\* a call that changed robots, shelves or orders in its result has returned twice
C1_Witness ==
    /\ pc = "returned"
    /\ result # input0
    /\ Len(actions_now) = MaxActs

\* C2: across every timestep each order's requirement for each product does
\* not grow and is not negative.
C2_RequirementsNonIncreasing ==
    [][\A o \in DOMAIN current_state.orders :
         \A p \in DOMAIN current_state.orders[o].requirements :
            /\ current_state'.orders[o].requirements[p]
                  <= current_state.orders[o].requirements[p]
            /\ current_state'.orders[o].requirements[p] >= 0]_vars

\* the requirement of 3 has reached 0 by deliveries of more than 3 units
C2_Witness ==
    /\ pc = "loop"
    /\ current_state.orders["o1"].requirements["p1"] = 0
    /\ current_state.shelves["s1"].quantities["p1"]
          + current_state.shelves["s2"].quantities["p1"] < 5

\* C3 as stated: the scenario plan ends with r1 at (2,2) carrying nothing, s1
\* standing at (2,2) with 2 units of p1, and o1 requiring 0 of p1.
ScenarioDoc ==
    <<Atom("r1", Str("pickup", <<>>), 1),
      Atom("r1", Str("move", <<1, 1>>), 2),
      Atom("r1", Str("deliver", <<"o1", "p1", 3>>), 3)>>

C3_ScenarioAsStated ==
    (pc = "done" /\ doc = ScenarioDoc) =>
        /\ current_state.robots["r1"].pos = <<2, 2>>
        /\ current_state.robots["r1"].carries = None
        /\ current_state.shelves["s1"].pos = <<2, 2>>
        /\ current_state.shelves["s1"].quantities["p1"] = 2
        /\ current_state.orders["o1"].requirements["p1"] = 0

\* C3 amended: the scenario plan ends with r1 at (2,2) still carrying s1, s1
\* without a position, s1 holding 2 units of p1, and o1 requiring 0 of p1.
C3_ScenarioEndState ==
    (pc = "done" /\ doc = ScenarioDoc) =>
        /\ current_state.robots["r1"].pos = <<2, 2>>
        /\ current_state.robots["r1"].carries = "s1"
        /\ current_state.shelves["s1"].pos = NoPos
        /\ current_state.shelves["s1"].quantities["p1"] = 2
        /\ current_state.orders["o1"].requirements["p1"] = 0

C3_Witness ==
    /\ pc = "done"
    /\ doc = ScenarioDoc
    /\ initial_state.robots["r1"].pos = <<1, 1>>
    /\ initial_state.shelves["s1"].pos = <<1, 1>>
    /\ initial_state.shelves["s1"].quantities["p1"] = 5
    /\ initial_state.orders["o1"].requirements["p1"] = 3
    /\ applied = <<1, 2, 3>>

\* C4: no shelf is carried by more than one robot.
C4_NoShelfCarriedTwice ==
    \A r1 \in DOMAIN current_state.robots :
        \A r2 \in DOMAIN current_state.robots :
            (r1 # r2 /\ current_state.robots[r1].carries # None)
                => current_state.robots[r1].carries # current_state.robots[r2].carries

\* C5 as stated: at most one movable entity, robot or standing shelf,
\* occupies a coordinate.
MovableAt(state, pos) ==
    {r \in DOMAIN state.robots : state.robots[r].pos = pos}
        \cup {sh \in DOMAIN state.shelves : state.shelves[sh].pos = pos}

C5_OneEntityPerCoordinate ==
    \A pos \in Cells : Cardinality(MovableAt(current_state, pos)) <= 1

\* C5 amended: at most one standing shelf occupies a coordinate (robots may
\* share a coordinate with a shelf or with each other).
C5_OneShelfPerCoordinate ==
    \A s1 \in DOMAIN current_state.shelves :
        \A s2 \in DOMAIN current_state.shelves :
            (s1 # s2 /\ current_state.shelves[s1].pos # NoPos)
                => current_state.shelves[s1].pos # current_state.shelves[s2].pos

\* a robot carrying one shelf stands on a coordinate, not a highway, where
\* the other shelf stands: the putdown that would stack them
C5_Witness ==
    /\ pc = "loop"
    /\ \E r \in DOMAIN current_state.robots :
          /\ current_state.robots[r].carries # None
          /\ current_state.robots[r].pos \notin current_state.highways
          /\ \E sh \in DOMAIN current_state.shelves :
                /\ sh # current_state.robots[r].carries
                /\ current_state.shelves[sh].pos = current_state.robots[r].pos

\* the case of C6: a timestep [Pickup(r)] on a fact-file state in which r
\* stands on shelf sh, followed by a timestep [Putdown(r)]
PickupThenPutdown(r, sh) ==
    /\ pc = "called"
    /\ prep = <<PickupAct(r)>>
    /\ actions_now = <<PutdownAct(r)>>
    /\ initial_state.robots[r].carries = None
    /\ initial_state.shelves[sh].pos = initial_state.robots[r].pos

\* C6 as stated: Pickup(r) then Putdown(r) leaves the shelf r stood on at its
\* original position and r carrying nothing.
C6_PickupPutdownAsStated ==
    \A r \in RobotIds : \A sh \in ShelfIds :
        PickupThenPutdown(r, sh) =>
            /\ result.shelves[sh].pos = initial_state.shelves[sh].pos
            /\ result.robots[r].carries = None

\* C6 amended: the same, when the position is not a highway and sh is the
\* only shelf standing on it.
OnlyShelfOffHighway(state, sh) ==
    /\ state.shelves[sh].pos \notin state.highways
    /\ \A other \in DOMAIN state.shelves :
          other # sh => state.shelves[other].pos # state.shelves[sh].pos

C6_PickupPutdownRestores ==
    \A r \in RobotIds : \A sh \in ShelfIds :
        (PickupThenPutdown(r, sh) /\ OnlyShelfOffHighway(initial_state, sh)) =>
            /\ result.shelves[sh].pos = initial_state.shelves[sh].pos
            /\ result.robots[r].carries = None

C6_Witness ==
    \E r \in RobotIds : \E sh \in ShelfIds :
        /\ PickupThenPutdown(r, sh)
        /\ OnlyShelfOffHighway(initial_state, sh)
        /\ input0.robots[r].carries = sh
        /\ input0.shelves[sh].pos = NoPos

\* the last action of the call's list is a Deliver by a robot that carries a
\* shelf, for a known order and product, of more units than the shelf holds
OverDelivery ==
    /\ pc = "called"
    /\ actions_now # <<>>
    /\ LET a == Last(actions_now)
       IN  /\ a.type = "deliver"
           /\ a.robot \in DOMAIN input0.robots
           /\ input0.robots[a.robot].carries # None
           /\ a.order \in DOMAIN input0.orders
           /\ a.product \in input0.products
           /\ a.units > BeforeLast.shelves[input0.robots[a.robot].carries]
                                        .quantities[a.product]

\* C7: a Deliver of more units than the carried shelf holds leaves the
\* shelf's quantity of the product and the order's requirement for it as they
\* were before the action.
C7_OverDeliveryRejected ==
    OverDelivery =>
        LET a == Last(actions_now)
            shelf == input0.robots[a.robot].carries
        IN  /\ result.shelves[shelf].quantities[a.product]
                  = BeforeLast.shelves[shelf].quantities[a.product]
            /\ result.orders[a.order].requirements[a.product]
                  = BeforeLast.orders[a.order].requirements[a.product]

\* an over-delivery at the order's station, where only the stock check can
\* reject it, after an earlier delivery of the same timestep drew on the shelf
C7_Witness ==
    /\ OverDelivery
    /\ LET a == Last(actions_now)
           shelf == input0.robots[a.robot].carries
       IN  /\ input0.robots[a.robot].pos = RequiredStationPos(input0, a.order)
           /\ BeforeLast.shelves[shelf].quantities[a.product]
                 < input0.shelves[shelf].quantities[a.product]
           /\ BeforeLast.orders[a.order].requirements[a.product] > 0

\* the last action of the call's list is a Putdown by a robot that carries a
\* shelf and stands on a highway
HighwayPutdown ==
    /\ pc = "called"
    /\ actions_now # <<>>
    /\ LET a == Last(actions_now)
       IN  /\ a.type = "putdown"
           /\ a.robot \in DOMAIN input0.robots
           /\ input0.robots[a.robot].carries # None
           /\ input0.robots[a.robot].pos \in input0.highways

\* C8: a Putdown on a highway is rejected: the robot still carries the same
\* shelf, the shelf's position is as the putdown found it (absent when it was
\* absent), and the robot's position is not changed by the putdown.
C8_HighwayPutdownRejected ==
    HighwayPutdown =>
        LET a == Last(actions_now)
            shelf == input0.robots[a.robot].carries
        IN  /\ result.robots[a.robot].carries = shelf
            /\ result.shelves[shelf].pos = BeforeLast.shelves[shelf].pos
            /\ result.robots[a.robot].pos = BeforeLast.robots[a.robot].pos

C8_Witness ==
    /\ HighwayPutdown
    /\ result.shelves[input0.robots[Last(actions_now).robot].carries].pos = NoPos
    /\ Len(actions_now) = MaxActs

\* the i-th action of the call's list takes a rejecting path
RejectedAt(i) ==
    Rejected(input0, update_state(input0, SubSeq(actions_now, 1, i - 1)),
             actions_now[i])

\* C9: a rejected action is a no-op that does not abort the timestep: the
\* call returns what it returns for the list without that action.
C9_RejectedActionSkipped ==
    pc \in {"called", "returned"} =>
        \A i \in 1..Len(actions_now) :
            RejectedAt(i) => result = update_state(input0, RemoveAt(actions_now, i))

\* a list whose first action is rejected and whose later action takes effect
C9_Witness ==
    /\ pc = "called"
    /\ Len(actions_now) >= 2
    /\ RejectedAt(1)
    /\ ~RejectedAt(Len(actions_now))
    /\ result # input0

\* C10 as stated: the run applies, in increasing order, the plan's action
\* list of every timestep of 0..max_time that has one, so every action
\* recorded in the plan, those of timestep 0 included, is applied.
C10_EveryTimestepApplied ==
    pc = "done" =>
        /\ PlanKeys(plan) \subseteq Range(applied)
        /\ Range(applied) \subseteq 0..max_time
        /\ \A i \in 1..Len(applied) : \A j \in 1..Len(applied) :
              i < j => applied[i] < applied[j]

\* C10 amended: timestep 0 shows the initial state and the run then applies,
\* in strictly increasing order, the plan's action list of each timestep
\* 1..max_time, so every action recorded at a timestep >= 1 is applied (actions
\* recorded at timestep 0 are not); a timestep with no plan entry leaves the
\* state unchanged.
C10_TimestepsFromOneApplied ==
    /\ [](pc = "done" =>
            /\ applied = [i \in 1..max_time |-> i]
            /\ (PlanKeys(plan) \ {0}) \subseteq Range(applied)
            /\ 0 \notin Range(applied))
    /\ [][(pc = "loop" /\ t <= max_time /\ t \notin PlanKeys(plan))
            => current_state' = current_state]_vars

\* a finished run of a plan with actions at timestep 0, a gap, and a later
\* timestep whose actions changed the state
C10_Witness ==
    /\ pc = "done"
    /\ 0 \in PlanKeys(plan)
    /\ max_time = MaxTime
    /\ \E gap \in 1..max_time : gap \notin PlanKeys(plan)
    /\ current_state # initial_state

\* C11 as stated: a plan file that is absent, is not JSON, or lacks 'Call'
\* or the first call's 'Witnesses' ends the run with a non-zero status before
\* any state transition or frame; a bad atom alone never does.
NothingComputed ==
    /\ temp_state = None
    /\ current_state = None
    /\ applied = <<>>

C11_BadDocumentFatal ==
    /\ (plan_file \in {"absent", "not_json", "no_call", "no_witnesses"} /\ pc # "parse")
          => (pc = "exit" /\ exit_status = 1 /\ NothingComputed)
    /\ plan_file = "ok" => (pc # "exit" /\ exit_status # 1)

\* C11 amended: a plan file that is absent, is not JSON or is not a JSON
\* object ends the run with status 1 before any state transition or frame; a
\* JSON object without 'Call', or whose first call has no 'Witnesses', is only
\* warned about and replayed as the empty plan with max_time 0 (frame 0 alone,
\* status 0); a bad atom alone never makes the run fatal.
C11_UnreadableDocumentFatal ==
    /\ (plan_file \in {"absent", "not_json", "not_object"} /\ pc # "parse")
          => (pc = "exit" /\ exit_status = 1 /\ NothingComputed)
    /\ (plan_file \in {"no_call", "no_witnesses"} /\ pc # "parse")
          => /\ pc # "exit" /\ exit_status # 1
             /\ PlanKeys(plan) = {} /\ max_time = 0
             /\ pc = "done" => (current_state = initial_state /\ applied = <<>>)
    /\ plan_file = "ok" => (pc # "exit" /\ exit_status # 1)

\* a run ended by an undecodable file, nothing computed
C11_Witness ==
    /\ plan_file = "not_json"
    /\ pc = "exit"
    /\ exit_status = 1
    /\ NothingComputed

\* the products named by any product-quantity or order-line fact of the file
ProductUniverse ==
    {facts[i].id : i \in {j \in 1..Len(facts) : facts[j].kind = "product"}}
        \cup {facts[i].ref : i \in {j \in 1..Len(facts) : facts[j].kind = "orderLine"}}

Mentions(kind, owner, product) ==
    \E i \in 1..Len(facts) :
        /\ facts[i].kind = kind
        /\ IF kind = "product"
           THEN facts[i].ref = owner /\ facts[i].id = product
           ELSE facts[i].id = owner /\ facts[i].ref = product

\* C12: after parse_init every shelf's quantities and every order's
\* requirements have an entry for every product named by any product or
\* order-line fact, dropped facts included, 0 where the shelf or order did not
\* mention the product.
C12_MappingsCoverProducts ==
    pc = "parsed" =>
        /\ initial_state.products = ProductUniverse
        /\ \A sh \in DOMAIN initial_state.shelves :
              /\ DOMAIN initial_state.shelves[sh].quantities = ProductUniverse
              /\ \A p \in ProductUniverse :
                    ~Mentions("product", sh, p)
                        => initial_state.shelves[sh].quantities[p] = 0
        /\ \A o \in DOMAIN initial_state.orders :
              /\ DOMAIN initial_state.orders[o].requirements = ProductUniverse
              /\ \A p \in ProductUniverse :
                    ~Mentions("orderLine", o, p)
                        => initial_state.orders[o].requirements[p] = 0

\* a shelf and an order that owe an entry to a product named only by a
\* dropped fact
C12_Witness ==
    /\ pc = "parsed"
    /\ "s1" \in DOMAIN initial_state.shelves
    /\ "o1" \in DOMAIN initial_state.orders
    /\ {"p1", "p2"} \subseteq ProductUniverse
    /\ ~Mentions("product", "s1", "p2")
    /\ initial_state.shelves["s1"].quantities["p2"] = 0
    /\ initial_state.orders["o1"].requirements["p2"] = 0
    /\ initial_state.orders["o1"].requirements["p1"] = 3

\* the part of a state that no action writes
Static(state) ==
    [nodes |-> state.nodes,
     highways |-> state.highways,
     picking_stations |-> state.picking_stations,
     products |-> state.products,
     station_of |-> [o \in DOMAIN state.orders |-> state.orders[o].station_id],
     robot_ids |-> DOMAIN state.robots,
     shelf_ids |-> DOMAIN state.shelves,
     order_ids |-> DOMAIN state.orders]

\* C13: every timestep leaves the node set, the highway set, the station
\* coordinates, the product universe, each order's station binding and the sets
\* of robot, shelf and order identities as they were.
C13_StaticPartUnchanged ==
    [][Static(current_state') = Static(current_state)]_vars

\* both robots have moved off their cells with a shelf each and the order is
\* fulfilled, in the warehouse as it was declared
C13_Witness ==
    /\ pc = "loop"
    /\ current_state.robots["r1"].carries = "s1"
    /\ current_state.robots["r2"].carries = "s2"
    /\ current_state.orders["o1"].requirements["p1"] = 0
    /\ current_state.shelves["s1"].quantities["p1"] < 5
    /\ Static(current_state) = Static(MkInit(<<1, 1>>, <<1, 1>>, <<1, 1>>, <<2, 2>>))

\* the last action of the call's list is of the given type
LastIs(type) ==
    /\ pc \in {"called", "returned"}
    /\ actions_now # <<>>
    /\ Last(actions_now).type = type

\* the conditions under which the last action, a Deliver, is to take effect
DeliverTakesEffect ==
    LET a == Last(actions_now)
    IN  /\ a.robot \in DOMAIN input0.robots
        /\ input0.robots[a.robot].carries \in DOMAIN BeforeLast.shelves
        /\ a.order \in DOMAIN BeforeLast.orders
        /\ a.product \in DOMAIN
              BeforeLast.shelves[input0.robots[a.robot].carries].quantities
        /\ BeforeLast.orders[a.order].station_id \in DOMAIN BeforeLast.picking_stations
        /\ input0.robots[a.robot].pos
              = BeforeLast.picking_stations[BeforeLast.orders[a.order].station_id]
        /\ BeforeLast.shelves[input0.robots[a.robot].carries].quantities[a.product]
              >= a.units

\* C14: a Deliver takes effect exactly when its robot carries a known shelf,
\* the order is known, the product is in the shelf's quantities, the robot's
\* timestep-start position is the coordinate of the order's station and the
\* shelf holds at least the units; it then lowers the shelf's quantity by the
\* units and the order's requirement to max(0, requirement - units) and
\* changes nothing else; otherwise it changes nothing.
C14_DeliverEffect ==
    LastIs("deliver") =>
        LET a == Last(actions_now)
            shelf == input0.robots[a.robot].carries
        IN  IF DeliverTakesEffect
            THEN result =
                    [BeforeLast EXCEPT
                        !.shelves[shelf].quantities[a.product] = @ - a.units,
                        !.orders[a.order].requirements[a.product] =
                            IF @ - a.units > 0 THEN @ - a.units ELSE 0]
            ELSE result = BeforeLast

\* a delivery taking effect on what an earlier delivery of the same timestep
\* left, past the requirement
C14_Witness ==
    /\ LastIs("deliver")
    /\ DeliverTakesEffect
    /\ Len(actions_now) = MaxActs
    /\ BeforeLast # input0
    /\ LET a == Last(actions_now)
       IN  /\ BeforeLast.orders[a.order].requirements[a.product] < a.units
           /\ result.orders[a.order].requirements[a.product] = 0
           /\ result.shelves[input0.robots[a.robot].carries].quantities[a.product] = 0

\* no two shelves that have a position share it
ShelvesApart(state) ==
    \A sh \in DOMAIN state.shelves :
        \A other \in DOMAIN state.shelves \ {sh} :
            state.shelves[sh].pos = NoPos
                \/ state.shelves[sh].pos # state.shelves[other].pos

\* the timesteps made of putdowns only
PutdownLists == ListsOver({PutdownAct(r) : r \in RobotIds}, MaxActs)

\* in the timestep `acts` on `state`, the last putdown finds another shelf
\* standing on its robot's coordinate
PutdownOntoShelf(state, acts) ==
    LET a == Last(acts)
        before == update_state(state, Front(acts))
    IN  /\ state.robots[a.robot].carries # None
        /\ \E other \in DOMAIN before.shelves \ {state.robots[a.robot].carries} :
              before.shelves[other].pos = state.robots[a.robot].pos

\* C15: from fact files that declare no two shelves on one coordinate, no two
\* standing shelves ever share a coordinate, whatever putdowns the next
\* timestep holds: a putdown onto a coordinate where another shelf stands,
\* one put down earlier in the same timestep included, changes nothing.
C15_PutdownKeepsShelvesApart ==
    \A acts \in PutdownLists :
        /\ ShelvesApart(update_state(current_state, acts))
        /\ (acts # <<>> /\ PutdownOntoShelf(current_state, acts))
              => update_state(current_state, acts)
                    = update_state(current_state, Front(acts))

\* two robots carry different shelves on one coordinate that is free and not
\* a highway: the first putdown of the timestep stands its shelf there, the
\* second is turned down
C15_Witness ==
    /\ pc = "loop"
    /\ current_state.robots["r1"].carries = "s1"
    /\ current_state.robots["r2"].carries = "s2"
    /\ current_state.robots["r1"].pos = current_state.robots["r2"].pos
    /\ LET acts == <<PutdownAct("r1"), PutdownAct("r2")>>
           after == update_state(current_state, acts)
       IN  /\ PutdownOntoShelf(current_state, acts)
           /\ after.shelves["s1"].pos = current_state.robots["r1"].pos
           /\ after.shelves["s2"].pos = NoPos
           /\ after.robots["r2"].carries = "s2"

\* C16: a shelf has no position if and only if some robot carries it.
C16_NoPositionIffCarried ==
    \A sh \in DOMAIN current_state.shelves :
        (current_state.shelves[sh].pos = NoPos)
            <=> (\E r \in DOMAIN current_state.robots :
                    current_state.robots[r].carries = sh)

\* C17: every shelf's quantity of every product is non-negative in every
\* reachable state, also after timesteps in which several Deliver actions
\* draw on the same shelf and product.
C17_QuantitiesNonNegative ==
    \A sh \in DOMAIN current_state.shelves :
        \A p \in DOMAIN current_state.shelves[sh].quantities :
            current_state.shelves[sh].quantities[p] >= 0

\* a robot at the station carries a shelf that holds 3: of two deliveries of
\* 2 in one timestep the first is served and the second finds 1 left
C17_Witness ==
    /\ pc = "loop"
    /\ \E r \in DOMAIN current_state.robots :
          /\ current_state.robots[r].carries = "s2"
          /\ current_state.shelves["s2"].quantities["p1"] = 3
          /\ LET twice == <<DeliverAct(r, "o1", "p1", 2), DeliverAct(r, "o1", "p1", 2)>>
             IN  update_state(current_state, twice).shelves["s2"].quantities["p1"] = 1

\* C18: a Move(dx,dy) of a known robot sets the robot's position to its
\* timestep-start position plus (dx,dy), whatever lies there, and changes
\* nothing else; of several Moves of one robot in a timestep only the last
\* displacement counts.
C18_MoveFromStartPosition ==
    (LastIs("move") /\ Last(actions_now).robot \in DOMAIN input0.robots) =>
        LET a == Last(actions_now)
            start == input0.robots[a.robot].pos
        IN  result = [BeforeLast EXCEPT
                        !.robots[a.robot].pos = <<start[1] + a.dx, start[2] + a.dy>>]

\* the second Move of a robot in one timestep takes it off the nodes, onto a
\* coordinate that is not its first Move's target plus the displacement
C18_Witness ==
    /\ LastIs("move")
    /\ Len(actions_now) = MaxActs
    /\ LET a == Last(actions_now)
       IN  /\ a.robot \in DOMAIN input0.robots
           /\ \A i \in 1..Len(actions_now) :
                 actions_now[i].type = "move" /\ actions_now[i].robot = a.robot
           /\ BeforeLast.robots[a.robot].pos # input0.robots[a.robot].pos
           /\ result.robots[a.robot].pos \notin result.nodes
           /\ result.robots[a.robot].pos[1] = input0.robots[a.robot].pos[1] + a.dx
           /\ result.robots[a.robot].carries # None

\* C19: a Pickup by a known robot changes nothing if the robot carried a
\* shelf at timestep start or no shelf stood at its timestep-start position;
\* otherwise the robot carries the first shelf, in the shelf mapping's order,
\* that stood at that position at timestep start, that shelf has no position,
\* and nothing else changes.
C19_PickupFirstShelfAtStart ==
    (LastIs("pickup") /\ Last(actions_now).robot \in DOMAIN input0.robots) =>
        LET r == Last(actions_now).robot
            keys == input0.shelf_keys
            there == {i \in 1..Len(keys) :
                        input0.shelves[keys[i]].pos = input0.robots[r].pos}
        IN  IF input0.robots[r].carries # None \/ there = {}
            THEN result = BeforeLast
            ELSE \E i \in there :
                    /\ \A j \in there : i <= j
                    /\ result = [BeforeLast EXCEPT
                                    !.robots[r].carries = keys[i],
                                    !.shelves[keys[i]].pos = NoPos]

\* two shelves stand on the robot's coordinate and the robot, after another
\* action of the timestep, takes the one that comes first in the mapping
C19_Witness ==
    /\ LastIs("pickup")
    /\ Len(actions_now) = MaxActs
    /\ BeforeLast # input0
    /\ LET r == Last(actions_now).robot
       IN  /\ r \in DOMAIN input0.robots
           /\ input0.robots[r].carries = None
           /\ input0.shelves["s1"].pos = input0.robots[r].pos
           /\ input0.shelves["s2"].pos = input0.robots[r].pos
           /\ result.robots[r].carries = "s1"
           /\ result.shelves["s1"].pos = NoPos
           /\ result.shelves["s2"].pos = input0.robots[r].pos

\* the action portion has the shape of no move, pickup, putdown or deliver
MatchesNoAction(action_str) ==
    /\ ~(action_str.name = "move" /\ Len(action_str.args) = 2)
    /\ ~(action_str.name \in {"pickup", "putdown"} /\ action_str.args = <<>>)
    /\ ~(action_str.name = "deliver" /\ Len(action_str.args) = 3)

\* the atoms of the parsed document whose action portion has no known shape
UnknownAtoms ==
    {i \in 1..Len(doc) : doc[i].pred = "occurs" /\ MatchesNoAction(doc[i].action)}

Parsed == pc # "parse" /\ plan_file = "ok"

\* C20 as stated: with an atom of unknown action, parse_plan returns the
\* mapping and the maximum timestep of the document without that atom.
C20_UnknownAtomAsStated ==
    Parsed =>
        \A i \in UnknownAtoms :
            /\ plan = parse_plan(RemoveAt(doc, i)).plan
            /\ max_time = parse_plan(RemoveAt(doc, i)).max_time

\* C20 amended: with an atom of unknown action, parse_plan returns the
\* mapping of the document without that atom, and as maximum timestep the
\* larger of that document's maximum and the atom's own timestep.
C20_UnknownAtomLeavesPlan ==
    Parsed =>
        \A i \in UnknownAtoms :
            /\ plan = parse_plan(RemoveAt(doc, i)).plan
            /\ max_time = Max(parse_plan(RemoveAt(doc, i)).max_time, doc[i].time)

\* an atom of unknown action stands at a timestep later than every other
\* atom of a document that has actions
C20_Witness ==
    /\ Parsed
    /\ PlanKeys(plan) # {}
    /\ \E i \in UnknownAtoms :
          /\ doc[i].time > parse_plan(RemoveAt(doc, i)).max_time
          /\ max_time = doc[i].time
          /\ i < Len(doc)

\* C21: the pre-calculation pass leaves the initial state as parse_init
\* returned it, frame 0 shows that state, the frame of every timestep
\* 1..max_time shows the state a single pass over the plan produces, and the
\* pre-calculation pass ends on the state the visualization loop ends on.
C21_PassesAgree ==
    pc \in {"frame0", "loop", "done"} =>
        \E init \in RunInitStates :
            /\ initial_state = init
            /\ temp_state = Replay(init, plan, 1, max_time)
            /\ pc # "frame0" => current_state = Replay(init, plan, 1, t - 1)
            /\ pc = "done" => current_state = temp_state

\* a finished run over MaxTime timesteps in which the state changed at more
\* than one timestep
C21_Witness ==
    /\ pc = "done"
    /\ max_time = MaxTime
    /\ current_state = temp_state
    /\ current_state # initial_state
    /\ \E k \in 1..(max_time - 1) :
          Replay(initial_state, plan, 1, k) \notin {initial_state, current_state}

\* no two robots stand on one coordinate
RobotsApart(state) ==
    \A r \in DOMAIN state.robots :
        \A other \in DOMAIN state.robots \ {r} :
            state.robots[r].pos # state.robots[other].pos

\* no shelf is carried by two robots
CarriedOnce(state) ==
    \A r \in DOMAIN state.robots :
        \A other \in DOMAIN state.robots \ {r} :
            state.robots[r].carries = None
                \/ state.robots[r].carries # state.robots[other].carries

\* C22: from a timestep-start state in which no two robots share a
\* coordinate and no shelf is carried by two robots, a timestep with one
\* action per robot gives the same state in either order of the actions.
C22_OrderOfActionsIrrelevant ==
    (pc = "loop" /\ RobotsApart(current_state) /\ CarriedOnce(current_state)) =>
        \A a1 \in RobotActs(current_state, "r1") :
            \A a2 \in RobotActs(current_state, "r2") :
                update_state(current_state, <<a1, a2>>)
                    = update_state(current_state, <<a2, a1>>)

RECURSIVE SumOver(_, _)
SumOver(keys, value) ==
    IF keys = {} THEN 0
    ELSE LET k == CHOOSE key \in keys : TRUE
         IN  value[k] + SumOver(keys \ {k}, value)

\* the units of a product on all shelves, and required by all orders
ShelfTotal(state, p) ==
    SumOver(DOMAIN state.shelves,
            [sh \in DOMAIN state.shelves |-> state.shelves[sh].quantities[p]])
RequiredTotal(state, p) ==
    SumOver(DOMAIN state.orders,
            [o \in DOMAIN state.orders |-> state.orders[o].requirements[p]])

\* C23: for every product the units on the shelves never increase, and over
\* every timestep (so over every run) the orders' requirements fall by at
\* most what the shelves lose; timesteps without a Deliver leave the shelves'
\* units alone, and a single delivery of more than the order still requires
\* takes more from the shelf than it takes off the requirement.
C23_UnitsLostNotGained ==
    /\ [][\A p \in current_state.products :
            /\ ShelfTotal(current_state', p) <= ShelfTotal(current_state, p)
            /\ RequiredTotal(current_state, p) - RequiredTotal(current_state', p)
                  <= ShelfTotal(current_state, p) - ShelfTotal(current_state', p)]_vars
    /\ [](\A p \in current_state.products :
            /\ \A acts \in ListsOver({a \in EngineActs(current_state) :
                                        a.type # "deliver"}, 2) :
                  ShelfTotal(update_state(current_state, acts), p)
                      = ShelfTotal(current_state, p)
            /\ \A a \in {d \in EngineActs(current_state) :
                            d.type = "deliver" /\ d.product = p} :
                  LET after == update_state(current_state, <<a>>)
                  IN  \/ after = current_state
                      \/ /\ ShelfTotal(after, p) = ShelfTotal(current_state, p) - a.units
                         /\ a.units > current_state.orders[a.order].requirements[p]
                              => RequiredTotal(current_state, p) - RequiredTotal(after, p)
                                    < a.units)

\* every unit has left the shelves, 8 in all, for a requirement of 3
C23_Witness ==
    /\ pc = "loop"
    /\ ShelfTotal(current_state, "p1") = 0
    /\ RequiredTotal(current_state, "p1") = 0

====
